---- MODULE Spec2Model ----
(***************************************************************************)
(* Farm parcel delineation of hydromt_geb: create_farms and the numba      *)
(* kernel create_farms_numba (src/hydromt_geb/workflows/farmers.py).       *)
(*                                                                         *)
(* One behaviour is one call of create_farms.  The call is cut into steps  *)
(* at the places where the kernel reads or writes the grid, so that the    *)
(* box scan, the box expansion and the cursor are visible as state.        *)
(* Under SpecDriver one behaviour is one call of GEBModel.setup_farmers    *)
(* (src/hydromt_geb/geb.py): its region loop, which calls create_farms     *)
(* once per region, the removal of the farms outside the study area and    *)
(* the renumbering of the farms that are left.                             *)
(* Under SpecCalendar one behaviour is one call of                         *)
(* parse_MIRCA2000_crop_calendar, under SpecSeason one call of             *)
(* get_growing_season_length (src/hydromt_geb/workflows/crop_calendars.py).*)
(*                                                                         *)
(* The kernel is compiled with @njit and no bounds checking: an integer    *)
(* index below zero has the dimension added once, and the element at the   *)
(* resulting address is read whatever it is.  A read outside the buffer    *)
(* yields an indeterminate value, modelled as a choice from Indeterminate. *)
(* xmin, xmax, ymin, ymax (lines 37, 49-56) are written and never read;    *)
(* they are left out.                                                      *)
(***************************************************************************)
EXTENDS Integers, Sequences, FiniteSets, TLC

\* ---------------------------------------------------------------- bounds
\* Largest number of grid cells (ysize * xsize) of an enumerated mask.
MaxCells == 4
\* Largest number of rows of the agent table.
MaxAgents == 2

\* Agent ids (index values of the agent table) that are enumerated.
AgentIds == {0, 1}
\* Target sizes that are enumerated (non-positive ones included).
AgentSizes == (-1)..MaxCells
\* Largest number of cells of the region subgrid of setup_farmers.
MaxDriverCells == 4
\* Region ids that are enumerated.
RegionIds == {1, 2}
\* Values an out-of-buffer read of an integer array may yield.
Indeterminate == {-2, -1, 0, 1, 2}

\* ------------------------------------------------------ program constants
\* The kernel's marker of a cultivable cell that has no farm yet, and the
\* value of non-cultivated land in the returned grid.
UNASSIGNED == -1
\* The kernel's internal marker of a non-cultivable cell.
NOT_CULTIVABLE == -2

VARIABLES
    cultivated_land,      \* the mask: [cells -> BOOLEAN]
    ysize, xsize,         \* its shape
    agents,               \* the caller's agent table: Seq([id, size])
    ids, farm_sizes,      \* the arrays handed to the kernel (shuffled order)
    pc,                   \* position in create_farms / create_farms_numba
    farms,                \* the label grid, <<>> before it is created
    current_farm_counter, cur_farm_size, farm_done, farm_id, farm_size,
    y, x,                 \* outer row-major scan
    xlow, xhigh, ylow, yhigh, xsearch, ysearch,
    yf, xf,               \* box scan
    error,                \* "none", or the line of the assertion that failed
    mode,                 \* "single": one call; "twice": the kernel is run a second
                          \* time; "driver": the calls of setup_farmers' region loop
    run,                  \* 1 or 2: which run of the kernel this is
    flips, flip_pos,      \* the coin flips of run 1, and how many this run has drawn
    first_grid,           \* the grid the first run of the kernel returned
    \* setup_farmers (src/hydromt_geb/geb.py); idle outside mode "driver"
    dpc,                  \* position in setup_farmers
    gysize, gxsize,       \* shape of the region subgrid
    regions_raster,       \* areamaps/region_subgrid: [cells -> region id]
    full_land,            \* landsurface/full_region_cultivated_land: [cells -> BOOLEAN]
    regions,              \* regions['region_id'], in the order of the loop
    farmers,              \* the farmer table: Seq([id, region_id, area_n_cells])
    region_k,             \* 1-based position of the loop in regions
    bounds,               \* the clip of the current region: [y0, y1, x0, x1]
    driver_farms,         \* the merged grid "farms" of setup_farmers
    region_mask,          \* areamaps/region_mask as bool, <<>> before line 1717
    subgrid_farms_in_study_area,
    \* crop calendar (src/hydromt_geb/workflows/crop_calendars.py); idle elsewhere
    cpc,                  \* position in parse_MIRCA2000_crop_calendar
    unique_MIRCA2000_units, \* the unit codes of the unit grid
    line_no,              \* how many lines of the file the loop has taken
    MIRCA2000_data,       \* the result: [unit codes -> Seq(<<area, rows>>)]
    unit_code, crop_class, number_of_rotations,
    crop_rotations,       \* Seq(<<start_day, growth_length, area>>) of the line
    crop_rotation,        \* the entry last built, <<>> before there is one
    start_day, end_day, growth_length,  \* the call of get_growing_season_length
    cal_error             \* "none", or the exception the parser raised

vars == <<cultivated_land, ysize, xsize, agents, ids, farm_sizes, pc, farms,
          current_farm_counter, cur_farm_size, farm_done, farm_id, farm_size,
          y, x, xlow, xhigh, ylow, yhigh, xsearch, ysearch, yf, xf, error,
          mode, run, flips, flip_pos, first_grid,
          dpc, gysize, gxsize, regions_raster, full_land, regions, farmers, region_k,
          bounds, driver_farms, region_mask, subgrid_farms_in_study_area,
          cpc, unique_MIRCA2000_units, line_no, MIRCA2000_data, unit_code, crop_class,
          number_of_rotations, crop_rotations, crop_rotation, start_day, end_day,
          growth_length, cal_error>>

inputVars == <<cultivated_land, ysize, xsize, agents>>
orderVars == <<ids, farm_sizes>>
cursorVars == <<current_farm_counter, cur_farm_size, farm_done, farm_id, farm_size>>
outerVars == <<y, x>>
boxVars == <<xlow, xhigh, ylow, yhigh, xsearch, ysearch>>
scanVars == <<yf, xf>>
rerunVars == <<mode, run, flips, flip_pos, first_grid>>
driverInputVars == <<gysize, gxsize, regions_raster, full_land, regions>>
driverVars == <<dpc, driverInputVars, farmers, region_k, bounds, driver_farms,
                region_mask, subgrid_farms_in_study_area>>
lineVars == <<unit_code, crop_class, number_of_rotations, crop_rotations, crop_rotation>>
seasonVars == <<start_day, end_day, growth_length>>
calendarVars == <<cpc, unique_MIRCA2000_units, line_no, MIRCA2000_data, lineVars,
                  seasonVars, cal_error>>

\* ---------------------------------------------------------------- helpers
Min(a, b) == IF a < b THEN a ELSE b
Max(a, b) == IF a > b THEN a ELSE b

Cells(h, w) == (0..(h - 1)) \X (0..(w - 1))

Shapes == {s \in (1..MaxCells) \X (1..MaxCells) : s[1] * s[2] <= MaxCells}
\* Shapes of the region subgrid that are enumerated: one row.
DriverShapes == {<<1, w>> : w \in 1..MaxDriverCells}

RECURSIVE SumSizes(_)
SumSizes(s) == IF s = <<>> THEN 0 ELSE s[1] + SumSizes(Tail(s))

\* cultivated_land.sum()
CountTrue(m) == Cardinality({c \in DOMAIN m : m[c]})

\* np.count_nonzero(grid == v)
CountEq(g, v) == Cardinality({c \in DOMAIN g : g[c] = v})

Orders(n) == {p \in [1..n -> 1..n] : \A i, j \in 1..n : p[i] = p[j] => i = j}

SeqsUpTo(S, n) == UNION {[1..k -> S] : k \in 0..n}

\* ------------------------------------------------------------ array access
\* ids[k] and farm_sizes[k] as the compiled kernel reads them (0-based k >= 0):
\* the element when k is inside the array, an indeterminate value otherwise.
ReadArray(a, k) == IF k < Len(a) THEN {a[k + 1]} ELSE Indeterminate

\* Index i of a dimension of size n, as compiled indexing normalises it:
\* a negative index has n added, once, and nothing is checked.
WrapIndex(i, n) == IF i < 0 THEN i + n ELSE i

\* Offset, in elements from the start of the C-contiguous buffer, of grid[r, c].
FlatOffset(r, c) == WrapIndex(r, ysize) * xsize + WrapIndex(c, xsize)

InBuffer(r, c) == FlatOffset(r, c) \in 0..(ysize * xsize - 1)

\* The grid cell stored at the address of grid[r, c], when it is in the buffer.
CellAt(r, c) == <<FlatOffset(r, c) \div xsize, FlatOffset(r, c) % xsize>>

\* A bound of a basic slice a[lo:hi] of a dimension of size n (numpy/Python
\* slice normalisation: negative bounds have n added, then are clipped).
SliceBound(i, n) == IF i < 0 THEN Max(i + n, 0) ELSE Min(i, n)

\* Cells of farms[ylow:yhigh+1+ysearch, xlow:xhigh+1+xsearch]  (line 43).
Window == {c \in Cells(ysize, xsize) :
             /\ SliceBound(ylow, ysize) <= c[1]
             /\ c[1] < SliceBound(yhigh + 1 + ysearch, ysize)
             /\ SliceBound(xlow, xsize) <= c[2]
             /\ c[2] < SliceBound(xhigh + 1 + xsearch, xsize)}

\* np.where(cultivated_land == True, -1, -2)  (line 29).
InitialGrid(m) == [c \in DOMAIN m |-> IF m[c] THEN UNASSIGNED ELSE NOT_CULTIVABLE]

\* Line 91 left out: the internal marker stays in the grid.
CleanGridKeepsMarker(g) == g

\* np.where(farms != -2, farms, -1)  (line 91).
CleanGrid(g) == [c \in DOMAIN g |-> IF g[c] # NOT_CULTIVABLE THEN g[c] ELSE UNASSIGNED]

\* np.unique(farms) without -1  (lines 103-104).
UniqueFarms(g) == {g[c] : c \in DOMAIN g} \ {UNASSIGNED}

SetMax(S) == CHOOSE m \in S : \A v \in S : v <= m
SetMin(S) == CHOOSE m \in S : \A v \in S : m <= v

\* ------------------------------------------------------------------- Init
\* The rows of an agent table are enumerated in one order only, by id and
\* then by size: create_farms reads the table through its sums, its length
\* and the shuffled copy of line 97, which takes every order.
TableOrdered(t) ==
    \A k \in 1..(Len(t) - 1) :
        \/ t[k].id < t[k + 1].id
        \/ t[k].id = t[k + 1].id /\ t[k].size <= t[k + 1].size

\* The state at the call of create_farms, before its first line.
Entry ==
    /\ agents \in {t \in SeqsUpTo([id : AgentIds, size : AgentSizes], MaxAgents) :
                     TableOrdered(t)}
    /\ ids = <<>>
    /\ farm_sizes = <<>>
    /\ pc = "check"
    /\ farms = <<>>
    /\ current_farm_counter = 0
    /\ cur_farm_size = 0
    /\ farm_done = FALSE
    /\ farm_id = 0
    /\ farm_size = 0
    /\ y = 0 /\ x = 0
    /\ xlow = 0 /\ xhigh = 0 /\ ylow = 0 /\ yhigh = 0
    /\ xsearch = 0 /\ ysearch = 0
    /\ yf = 0 /\ xf = 0
    /\ error = "none"
    /\ run = 1
    /\ flips = <<>>
    /\ flip_pos = 0
    /\ first_grid = <<>>

\* setup_farmers is not running.
DriverIdle ==
    /\ dpc = "off"
    /\ gysize = 0 /\ gxsize = 0
    /\ regions_raster = <<>>
    /\ full_land = <<>>
    /\ regions = <<>>
    /\ farmers = <<>>
    /\ region_k = 0
    /\ bounds = <<>>
    /\ driver_farms = <<>>
    /\ region_mask = <<>>
    /\ subgrid_farms_in_study_area = <<>>

\* parse_MIRCA2000_crop_calendar and get_growing_season_length are not running.
CalendarIdle ==
    /\ cpc = "off"
    /\ unique_MIRCA2000_units = {}
    /\ line_no = 0
    /\ MIRCA2000_data = <<>>
    /\ unit_code = 0 /\ crop_class = 0 /\ number_of_rotations = 0
    /\ crop_rotations = <<>>
    /\ crop_rotation = <<>>
    /\ start_day = 0 /\ end_day = 0 /\ growth_length = 0
    /\ cal_error = "none"

\* Masks of every shape of at most MaxCells cells.
Init ==
    /\ \E s \in Shapes :
        /\ ysize = s[1]
        /\ xsize = s[2]
        /\ cultivated_land \in [Cells(s[1], s[2]) -> BOOLEAN]
    /\ Entry
    /\ mode = "single"
    /\ DriverIdle
    /\ CalendarIdle

\* ----------------------------------------------------------- create_farms
TableSizes == [k \in 1..Len(agents) |-> agents[k].size]

\* Line 95 written with >= : a size sum below the cultivable count passes.
SizeSumAtMost == CountTrue(cultivated_land) >= SumSizes(TableSizes)

\* Line 95: assert cultivated_land_tehsil.sum() == agents[farm_size_key].sum()
SizeSumMatches == CountTrue(cultivated_land) = SumSizes(TableSizes)

CheckSizesOk ==
    /\ pc = "check"
    /\ SizeSumMatches
    /\ pc' = "sample"
    /\ UNCHANGED <<calendarVars, driverVars, rerunVars, inputVars, orderVars, farms, cursorVars, outerVars, boxVars,
                   scanVars, error>>

CheckSizesFail ==
    /\ pc = "check"
    /\ ~SizeSumMatches
    /\ pc' = "raised"
    /\ error' = "assert95"
    /\ UNCHANGED <<calendarVars, driverVars, rerunVars, inputVars, orderVars, farms, cursorVars, outerVars, boxVars,
                   scanVars>>

\* Line 97 as a shuffle in place: the caller's table takes the drawn order.
SampleInPlace ==
    /\ pc = "sample"
    /\ \E p \in Orders(Len(agents)) :
        /\ agents' = [k \in 1..Len(agents) |-> agents[p[k]]]
        /\ ids' = [k \in 1..Len(agents) |-> agents[p[k]].id]
        /\ farm_sizes' = [k \in 1..Len(agents) |-> agents[p[k]].size]
    /\ pc' = "kernel"
    /\ UNCHANGED <<calendarVars, driverVars, rerunVars, cultivated_land, ysize, xsize, farms, cursorVars,
                   outerVars, boxVars, scanVars, error>>

\* Lines 97-101: agents.sample(frac=1), a uniformly drawn order of the rows of
\* a copy of the table; its index and size column become the kernel's arrays.
Sample ==
    /\ pc = "sample"
    /\ \E p \in Orders(Len(agents)) :
        /\ ids' = [k \in 1..Len(agents) |-> agents[p[k]].id]
        /\ farm_sizes' = [k \in 1..Len(agents) |-> agents[p[k]].size]
    /\ pc' = "kernel"
    /\ UNCHANGED <<calendarVars, driverVars, rerunVars, inputVars, farms, cursorVars, outerVars, boxVars, scanVars, error>>

\* ----------------------------------------------------- create_farms_numba
\* Lines 23-31: the cursor, the first agent, the grid, the start of the scan.
KernelInit ==
    /\ pc = "kernel"
    /\ current_farm_counter' = 0
    /\ cur_farm_size' = 0
    /\ farm_done' = FALSE
    /\ farm_id' \in ReadArray(ids, 0)
    /\ farm_size' \in ReadArray(farm_sizes, 0)
    /\ farms' = InitialGrid(cultivated_land)
    /\ y' = 0 /\ x' = 0
    /\ pc' = "scan"
    /\ UNCHANGED <<calendarVars, driverVars, rerunVars, inputVars, orderVars, boxVars, scanVars, error>>

\* The for loops of lines 31-32 step to the next cell, or end.
AdvanceOuter ==
    IF x + 1 < xsize
    THEN /\ x' = x + 1 /\ y' = y /\ pc' = "scan"
    ELSE IF y + 1 < ysize
         THEN /\ x' = 0 /\ y' = y + 1 /\ pc' = "scan"
         ELSE /\ UNCHANGED outerVars /\ pc' = "finish"

\* Lines 33-34, f != -1: nothing to do for this cell.
OuterSkip ==
    /\ pc = "scan"
    /\ farms[<<y, x>>] # UNASSIGNED
    /\ AdvanceOuter
    /\ UNCHANGED <<calendarVars, driverVars, rerunVars, inputVars, orderVars, farms, cursorVars, boxVars, scanVars, error>>

\* Line 38 with the box set to the seed cell alone.
OuterSeedSingleCell ==
    /\ pc = "scan"
    /\ farms[<<y, x>>] = UNASSIGNED
    /\ farm_size > 0
    /\ xlow' = x /\ xhigh' = x /\ ylow' = y /\ yhigh' = y
    /\ xsearch' = 0 /\ ysearch' = 0
    /\ pc' = "while"
    /\ UNCHANGED <<calendarVars, driverVars, rerunVars, inputVars, orderVars, farms, cursorVars, outerVars,
                   scanVars, error>>

\* Lines 33-40, f == -1: a seed; the box is set up around it.
OuterSeed ==
    /\ pc = "scan"
    /\ farms[<<y, x>>] = UNASSIGNED
    /\ farm_size > 0
    /\ xlow' = x /\ xhigh' = x + 1 /\ ylow' = y /\ yhigh' = y + 1
    /\ xsearch' = 0 /\ ysearch' = 0
    /\ pc' = "while"
    /\ UNCHANGED <<calendarVars, driverVars, rerunVars, inputVars, orderVars, farms, cursorVars, outerVars, scanVars, error>>

\* Line 35: assert farm_size > 0 fails at a seed.
OuterAssertFail ==
    /\ pc = "scan"
    /\ farms[<<y, x>>] = UNASSIGNED
    /\ ~(farm_size > 0)
    /\ pc' = "raised"
    /\ error' = "assert35"
    /\ UNCHANGED <<calendarVars, driverVars, rerunVars, inputVars, orderVars, farms, cursorVars, outerVars, boxVars, scanVars>>

\* Lines 43-44: no unassigned cell in the window: leave the while loop.
WhileBreak ==
    /\ pc = "while"
    /\ \A c \in Window : farms[c] # UNASSIGNED
    /\ pc' = "after"
    /\ UNCHANGED <<calendarVars, driverVars, rerunVars, inputVars, orderVars, farms, cursorVars, outerVars, boxVars,
                   scanVars, error>>

\* Lines 43, 46-47: an unassigned cell in the window: start a scan of the box.
WhileScan ==
    /\ pc = "while"
    /\ \E c \in Window : farms[c] = UNASSIGNED
    /\ yf' = ylow /\ xf' = xlow
    /\ pc' = "box"
    /\ UNCHANGED <<calendarVars, driverVars, rerunVars, inputVars, orderVars, farms, cursorVars, outerVars, boxVars, error>>

\* The for loops of lines 46-47 step to the next box position, or end; the
\* checks of lines 64-68 then fall through to the expansion.
AdvanceBox ==
    IF xf < xhigh
    THEN /\ xf' = xf + 1 /\ yf' = yf /\ pc' = "box"
    ELSE IF yf < yhigh
         THEN /\ xf' = xlow /\ yf' = yf + 1 /\ pc' = "box"
         ELSE /\ UNCHANGED scanVars /\ pc' = "expand"

\* Line 48 evaluates farms[yf, xf] only after xf < xsize and yf < ysize.
Indexed == xf < xsize /\ yf < ysize

\* The values farms[yf, xf] may yield.
ReadGrid == IF InBuffer(yf, xf) THEN {farms[CellAt(yf, xf)]} ELSE Indeterminate

\* farms[yf, xf] = farm_id (line 57): a store outside the buffer leaves the grid as it is.
WriteGrid == IF InBuffer(yf, xf)
             THEN [farms EXCEPT ![CellAt(yf, xf)] = farm_id]
             ELSE farms

\* Line 48 false: the position is passed over.
BoxSkip ==
    /\ pc = "box"
    /\ \/ ~Indexed
       \/ Indexed /\ \E v \in ReadGrid : v # UNASSIGNED
    /\ AdvanceBox
    /\ UNCHANGED <<calendarVars, driverVars, rerunVars, inputVars, orderVars, farms, cursorVars, outerVars, boxVars, error>>

\* Lines 48-59: the position holds -1 and the farm is not complete with it.
BoxAssign ==
    /\ pc = "box"
    /\ Indexed
    /\ UNASSIGNED \in ReadGrid
    /\ cur_farm_size + 1 # farm_size
    /\ farms' = WriteGrid
    /\ cur_farm_size' = cur_farm_size + 1
    /\ AdvanceBox
    /\ UNCHANGED <<calendarVars, driverVars, rerunVars, inputVars, orderVars, current_farm_counter, farm_done, farm_id,
                   farm_size, outerVars, boxVars, error>>

\* Lines 59-68 with the breaks lost: the farm is complete and the box scan
\* goes on.
BoxAssignDoneNoBreak ==
    /\ pc = "box"
    /\ Indexed
    /\ UNASSIGNED \in ReadGrid
    /\ cur_farm_size + 1 = farm_size
    /\ farms' = WriteGrid
    /\ cur_farm_size' = 0
    /\ farm_done' = TRUE
    /\ AdvanceBox
    /\ UNCHANGED <<calendarVars, driverVars, rerunVars, inputVars, orderVars, current_farm_counter, farm_id,
                   farm_size, outerVars, boxVars, error>>

\* Lines 48-68: the position holds -1 and completes the farm: all loops are left.
BoxAssignDone ==
    /\ pc = "box"
    /\ Indexed
    /\ UNASSIGNED \in ReadGrid
    /\ cur_farm_size + 1 = farm_size
    /\ farms' = WriteGrid
    /\ cur_farm_size' = 0
    /\ farm_done' = TRUE
    /\ pc' = "after"
    /\ UNCHANGED <<calendarVars, driverVars, rerunVars, inputVars, orderVars, current_farm_counter, farm_id, farm_size,
                   outerVars, boxVars, scanVars, error>>

\* Lines 70-82: two coin flips move one row bound and one column bound.
\* The outcomes <<random() < 0.5, random() < 0.5>> of lines 70 and 77: free,
\* except in a second run, which draws what the first run drew (same seed).
Coins == IF mode = "twice" /\ run = 2 /\ flip_pos < Len(flips)
         THEN {flips[flip_pos + 1]}
         ELSE BOOLEAN \X BOOLEAN

\* Lines 70-82 with the four updates of the bounds lost: a flip sets the
\* search flag and the box stays as it is.
ExpandFlagsOnly ==
    /\ pc = "expand"
    /\ \E coin \in Coins :
        /\ ysearch' = IF coin[1] THEN 1 ELSE 0
        /\ xsearch' = IF coin[2] THEN 1 ELSE 0
        /\ flips' = IF mode = "twice" /\ run = 1 THEN Append(flips, coin) ELSE flips
    /\ flip_pos' = IF mode = "twice" THEN flip_pos + 1 ELSE flip_pos
    /\ pc' = "while"
    /\ UNCHANGED <<calendarVars, driverVars, xlow, xhigh, ylow, yhigh, mode, run, first_grid, inputVars, orderVars,
                   farms, cursorVars, outerVars, scanVars, error>>

\* Lines 70-82 with the row flip moving both row bounds.
ExpandBothRows ==
    /\ pc = "expand"
    /\ \E coin \in Coins :
        /\ ylow' = ylow - 1 /\ yhigh' = yhigh + 1
        /\ ysearch' = IF coin[1] THEN 1 ELSE 0
        /\ IF coin[2] THEN /\ xlow' = xlow - 1 /\ xsearch' = 1 /\ xhigh' = xhigh
                      ELSE /\ xhigh' = xhigh + 1 /\ xsearch' = 0 /\ xlow' = xlow
        /\ flips' = IF mode = "twice" /\ run = 1 THEN Append(flips, coin) ELSE flips
    /\ flip_pos' = IF mode = "twice" THEN flip_pos + 1 ELSE flip_pos
    /\ pc' = "while"
    /\ UNCHANGED <<calendarVars, driverVars, mode, run, first_grid, inputVars, orderVars, farms, cursorVars,
                   outerVars, scanVars, error>>

Expand ==
    /\ pc = "expand"
    /\ \E coin \in Coins :
        /\ IF coin[1] THEN /\ ylow' = ylow - 1 /\ ysearch' = 1 /\ yhigh' = yhigh
                      ELSE /\ yhigh' = yhigh + 1 /\ ysearch' = 0 /\ ylow' = ylow
        /\ IF coin[2] THEN /\ xlow' = xlow - 1 /\ xsearch' = 1 /\ xhigh' = xhigh
                      ELSE /\ xhigh' = xhigh + 1 /\ xsearch' = 0 /\ xlow' = xlow
        /\ flips' = IF mode = "twice" /\ run = 1 THEN Append(flips, coin) ELSE flips
    /\ flip_pos' = IF mode = "twice" THEN flip_pos + 1 ELSE flip_pos
    /\ pc' = "while"
    /\ UNCHANGED <<calendarVars, driverVars, mode, run, first_grid, inputVars, orderVars, farms, cursorVars,
                   outerVars, scanVars, error>>

\* Lines 84-88 with farm_done set: the cursor moves to the next agent.
AfterDone ==
    /\ pc = "after"
    /\ farm_done
    /\ farm_done' = FALSE
    /\ current_farm_counter' = current_farm_counter + 1
    /\ farm_id' \in ReadArray(ids, current_farm_counter + 1)
    /\ farm_size' \in ReadArray(farm_sizes, current_farm_counter + 1)
    /\ AdvanceOuter
    /\ UNCHANGED <<calendarVars, driverVars, rerunVars, inputVars, orderVars, farms, cur_farm_size, boxVars, scanVars, error>>

\* Line 84 with the test lost: the cursor moves on though the farm is not
\* complete.
AfterNotDoneAdvances ==
    /\ pc = "after"
    /\ ~farm_done
    /\ current_farm_counter' = current_farm_counter + 1
    /\ farm_id' \in ReadArray(ids, current_farm_counter + 1)
    /\ farm_size' \in ReadArray(farm_sizes, current_farm_counter + 1)
    /\ AdvanceOuter
    /\ UNCHANGED <<calendarVars, driverVars, rerunVars, inputVars, orderVars, farms, cur_farm_size,
                   farm_done, boxVars, scanVars, error>>

\* Line 84 with farm_done clear: the same agent goes on at the next seed.
AfterNotDone ==
    /\ pc = "after"
    /\ ~farm_done
    /\ AdvanceOuter
    /\ UNCHANGED <<calendarVars, driverVars, rerunVars, inputVars, orderVars, farms, cursorVars, boxVars, scanVars, error>>

\* Lines 90-92 (and the astype of line 102): the final assertion, the clean-up
\* of the internal marker, the return to create_farms.
KernelFinish ==
    /\ pc = "finish"
    /\ IF CountEq(farms, UNASSIGNED) = 0
       THEN /\ farms' = CleanGrid(farms) /\ pc' = "post" /\ error' = error
       ELSE /\ farms' = farms /\ pc' = "raised" /\ error' = "assert90"
    /\ UNCHANGED <<calendarVars, driverVars, rerunVars, inputVars, orderVars, cursorVars, outerVars, boxVars, scanVars>>

\* ------------------------------------------- create_farms, after the kernel
\* Lines 103-106.
UniqueDense == UniqueFarms(farms) # {} =>
                 Cardinality(UniqueFarms(farms)) = SetMax(UniqueFarms(farms)) + 1
\* Line 107.
LabelledCountMatches == SumSizes(farm_sizes) = Cardinality({c \in DOMAIN farms : farms[c] # UNASSIGNED})
\* Line 108 written with >= .
MaxAtLeastAgents == SetMax({farms[c] : c \in DOMAIN farms}) + 1 >= Len(ids)
\* Line 108.
MaxMatchesAgents == SetMax({farms[c] : c \in DOMAIN farms}) + 1 = Len(ids)
\* Line 109.
LabelsMatchMask == \A c \in DOMAIN farms : (farms[c] >= 0) <=> cultivated_land[c]

\* Lines 103-109 without the two comparisons of the grid with the mask
\* (lines 107 and 109).
PostChecksIdsOnly == UniqueDense /\ MaxMatchesAgents

PostChecks == UniqueDense /\ LabelledCountMatches /\ MaxMatchesAgents /\ LabelsMatchMask

\* Lines 103-111, all assertions hold: the grid is returned.
Return ==
    /\ pc = "post"
    /\ PostChecks
    /\ pc' = "returned"
    /\ UNCHANGED <<calendarVars, driverVars, rerunVars, inputVars, orderVars, farms, cursorVars, outerVars, boxVars,
                   scanVars, error>>

\* Lines 103-109, one of the assertions fails.
PostFail ==
    /\ pc = "post"
    /\ ~PostChecks
    /\ pc' = "raised"
    /\ error' = IF ~UniqueDense THEN "assert106"
                ELSE IF ~LabelledCountMatches THEN "assert107"
                ELSE IF ~MaxMatchesAgents THEN "assert108" ELSE "assert109"
    /\ UNCHANGED <<calendarVars, driverVars, rerunVars, inputVars, orderVars, farms, cursorVars, outerVars, boxVars, scanVars>>

Next ==
    \/ CheckSizesOk
    \/ CheckSizesFail
    \/ Sample
    \/ KernelInit
    \/ OuterSkip
    \/ OuterSeed
    \/ OuterAssertFail
    \/ WhileBreak
    \/ WhileScan
    \/ BoxSkip
    \/ BoxAssign
    \/ BoxAssignDone
    \/ Expand
    \/ AfterDone
    \/ AfterNotDone
    \/ KernelFinish
    \/ Return
    \/ PostFail

Spec == Init /\ [][Next]_vars

\* Calls whose input meets the preconditions of the contract: positive
\* sizes that sum to the number of cultivable cells, one id per agent.
\* Line 95 holds for them, so the step of its failure is not among theirs.
InitValid ==
    /\ Init
    /\ \A k \in 1..Len(agents) : agents[k].size > 0
    /\ \A i, j \in 1..Len(agents) : agents[i].id = agents[j].id => i = j
    /\ SizeSumMatches

NextValid ==
    \/ CheckSizesOk
    \/ Sample
    \/ KernelInit
    \/ OuterSkip
    \/ OuterSeed
    \/ OuterAssertFail
    \/ WhileBreak
    \/ WhileScan
    \/ BoxSkip
    \/ BoxAssign
    \/ BoxAssignDone
    \/ Expand
    \/ AfterDone
    \/ AfterNotDone
    \/ KernelFinish
    \/ Return
    \/ PostFail

\* The call runs to its end: Python runs the one thread without pause.
FairSpec == InitValid /\ [][NextValid]_vars /\ WF_vars(NextValid)

\* ------------------------------------------------- the kernel, run twice
\* A second invocation of the kernel (lines 98-102) on the same mask, the
\* same ids and farm_sizes, drawing the coin flips the first one drew.
Rerun ==
    /\ pc = "post"
    /\ mode = "twice"
    /\ run = 1
    /\ first_grid' = farms
    /\ run' = 2
    /\ flip_pos' = 0
    /\ farms' = <<>>
    /\ pc' = "kernel"
    /\ UNCHANGED <<calendarVars, driverVars, mode, flips, inputVars, orderVars, cursorVars, outerVars, boxVars,
                   scanVars, error>>

InitRerun ==
    /\ \E s \in Shapes :
        /\ ysize = s[1]
        /\ xsize = s[2]
        /\ cultivated_land \in [Cells(s[1], s[2]) -> BOOLEAN]
    /\ Entry
    /\ mode = "twice"
    /\ DriverIdle
    /\ CalendarIdle

NextRerun == Next \/ Rerun

SpecRerun == InitRerun /\ [][NextRerun]_vars

\* ------------------------------------------ setup_farmers (region driver)
\* The regions of the loop of line 1701, in its order: the region ids that
\* the raster holds.
RegionOrder(raster) ==
    LET present == {raster[c] : c \in DOMAIN raster}
    IN  IF present = {1, 2} THEN <<1, 2>>
        ELSE IF present = {1} THEN <<1>> ELSE <<2>>

\* regions_raster == region_id  (line 1703).
RegionCells(r) == {c \in DOMAIN regions_raster : regions_raster[c] = r}

\* clip_with_grid(ds, mask): the bounds of the smallest box of rows and
\* columns that holds every cell of the mask (lines 1704, 1725).
ClipBounds(S) ==
    [y0 |-> SetMin({c[1] : c \in S}), y1 |-> SetMax({c[1] : c \in S}) + 1,
     x0 |-> SetMin({c[2] : c \in S}), x1 |-> SetMax({c[2] : c \in S}) + 1]

\* The cell of the full grid under cell c of a clip with bounds b.
Unclip(b, c) == <<c[1] + b.y0, c[2] + b.x0>>

\* ds.isel(bounds): the clip of grid g to the bounds b.
Isel(g, b) == [c \in Cells(b.y1 - b.y0, b.x1 - b.x0) |-> g[Unclip(b, c)]]

\* farmers[farmers['region_id'] == region_id]  (line 1709), as the agent
\* table create_farms takes: the index and the column area_n_cells.
FarmersRegion(r) ==
    LET rows == SelectSeq(farmers, LAMBDA f : f.region_id = r)
    IN  [k \in 1..Len(rows) |-> [id |-> rows[k].id, size |-> rows[k].area_n_cells]]

\* Lines 1701-1710: the next region is clipped and create_farms is called on
\* its cultivated land and its farmers.
RegionCall ==
    /\ dpc = "loop"
    /\ region_k <= Len(regions)
    /\ LET r == regions[region_k]
           b == ClipBounds(RegionCells(r))
       IN  /\ bounds' = b
           /\ ysize' = b.y1 - b.y0
           /\ xsize' = b.x1 - b.x0
           /\ cultivated_land' =
                [c \in Cells(b.y1 - b.y0, b.x1 - b.x0) |->
                    regions_raster[Unclip(b, c)] = r /\ full_land[Unclip(b, c)]]
           /\ agents' = FarmersRegion(r)
    /\ ids' = <<>> /\ farm_sizes' = <<>>
    /\ farms' = <<>>
    /\ current_farm_counter' = 0 /\ cur_farm_size' = 0 /\ farm_done' = FALSE
    /\ farm_id' = 0 /\ farm_size' = 0
    /\ y' = 0 /\ x' = 0
    /\ xlow' = 0 /\ xhigh' = 0 /\ ylow' = 0 /\ yhigh' = 0
    /\ xsearch' = 0 /\ ysearch' = 0
    /\ yf' = 0 /\ xf' = 0
    /\ pc' = "check"
    /\ dpc' = "call"
    /\ UNCHANGED <<calendarVars, rerunVars, error, driverInputVars, farmers, region_k, driver_farms,
                   region_mask, subgrid_farms_in_study_area>>

\* Line 1713 with the region's grid written over the whole clip, the cells
\* of other regions included.
MergeWholeClip(g, b, r, fr) ==
    [c \in DOMAIN g |->
        IF /\ b.y0 <= c[1] /\ c[1] < b.y1 /\ b.x0 <= c[2] /\ c[2] < b.x1
        THEN fr[<<c[1] - b.y0, c[2] - b.x0>>]
        ELSE g[c]]

\* farms[bounds] = xr.where(region_clip, farms_region, farms.isel(bounds))
\* (line 1713): inside the clip the cells of region r take the region's grid.
MergeRegion(g, b, r, fr) ==
    [c \in DOMAIN g |->
        IF /\ b.y0 <= c[1] /\ c[1] < b.y1 /\ b.x0 <= c[2] /\ c[2] < b.x1
           /\ regions_raster[c] = r
        THEN fr[<<c[1] - b.y0, c[2] - b.x0>>]
        ELSE g[c]]

\* The call of create_farms is over: its arguments and locals are gone.
CallOver ==
    /\ cultivated_land' = <<>> /\ ysize' = 0 /\ xsize' = 0 /\ agents' = <<>>
    /\ ids' = <<>> /\ farm_sizes' = <<>>
    /\ farms' = <<>>
    /\ current_farm_counter' = 0 /\ cur_farm_size' = 0 /\ farm_done' = FALSE
    /\ farm_id' = 0 /\ farm_size' = 0
    /\ y' = 0 /\ x' = 0
    /\ xlow' = 0 /\ xhigh' = 0 /\ ylow' = 0 /\ yhigh' = 0
    /\ xsearch' = 0 /\ ysearch' = 0
    /\ yf' = 0 /\ xf' = 0
    /\ pc' = "idle"

\* Lines 1710-1713: create_farms has returned; its grid is checked and merged,
\* and the loop moves on.
RegionMerge ==
    /\ dpc = "call"
    /\ pc = "returned"
    /\ IF \A c \in DOMAIN farms : farms[c] >= -1
       THEN /\ driver_farms' = MergeRegion(driver_farms, bounds, regions[region_k], farms)
            /\ region_k' = region_k + 1
            /\ dpc' = "loop"
            /\ error' = error
       ELSE /\ UNCHANGED <<driver_farms, region_k>>
            /\ dpc' = "raised"
            /\ error' = "assert1711"
    /\ CallOver
    /\ UNCHANGED <<calendarVars, rerunVars, driverInputVars, farmers, bounds, region_mask,
                   subgrid_farms_in_study_area>>

\* Lines 1721-1722 with the mask inverted: the farms that have a cell inside
\* the study area.
CutFarmsInside(g, mask) == {g[c] : c \in {d \in DOMAIN g : ~mask[d]}} \ {-1}

\* cut_farms (lines 1721-1722): the ids found where region_mask is set, that
\* is outside the study area (line 1725 clips to ~region_mask).
CutFarms(g, mask) == {g[c] : c \in {d \in DOMAIN g : mask[d]}} \ {-1}

\* Lines 1715-1728: the loop is over; the farms that region_mask cuts are taken
\* out of the grid, clipped to the study area, and out of the farmer table.
Removal ==
    /\ dpc = "loop"
    /\ region_k > Len(regions)
    /\ \E mask \in [DOMAIN driver_farms -> BOOLEAN] :
        /\ \E c \in DOMAIN mask : ~mask[c]
        /\ region_mask' = mask
        /\ IF \A c \in DOMAIN driver_farms : driver_farms[c] >= -1
           THEN /\ LET cut == CutFarms(driver_farms, mask)
                       sub == Isel(driver_farms,
                                   ClipBounds({c \in DOMAIN mask : ~mask[c]}))
                   IN  /\ subgrid_farms_in_study_area' =
                            [c \in DOMAIN sub |-> IF sub[c] \in cut THEN -1 ELSE sub[c]]
                       /\ farmers' = SelectSeq(farmers, LAMBDA f : f.id \notin cut)
                /\ dpc' = "renumber"
                /\ error' = error
           ELSE /\ UNCHANGED <<subgrid_farms_in_study_area, farmers>>
                /\ dpc' = "raised"
                /\ error' = "assert1724"
    /\ UNCHANGED <<calendarVars, rerunVars, inputVars, orderVars, pc, farms, cursorVars, outerVars,
                   boxVars, scanVars, driverInputVars, region_k, bounds, driver_farms>>

\* farmers.index.max()
IndexMax(t) == SetMax({t[k].id : k \in 1..Len(t)})

\* Lines 1730-1731 without the renumbering: every surviving id maps to itself.
RemapKeepIds(t) ==
    [i \in 0..(IndexMax(t) + 1) |->
        IF \E k \in 1..Len(t) : t[k].id = i THEN i ELSE -1]

\* remap_farmer_ids (lines 1730-1731): an array of IndexMax + 2 entries, -1
\* everywhere but at the surviving ids, which hold their new, dense ids.
RemapFarmerIds(t) ==
    [i \in 0..(IndexMax(t) + 1) |->
        IF \E k \in 1..Len(t) : t[k].id = i
        THEN (CHOOSE k \in 1..Len(t) : t[k].id = i) - 1
        ELSE -1]

\* Line 1732 with -1 read as the first entry of the array.
RemapLookupFirst(remap, v) == remap[IF v < 0 THEN 0 ELSE v]

\* remap_farmer_ids[v] (line 1732): numpy indexing, -1 is the last entry.
RemapLookup(remap, v) == remap[IF v < 0 THEN v + IndexMax(farmers) + 2 ELSE v]

\* Line 1736.
DistinctMatchesFarmers(g, t) == Cardinality({g[c] : c \in DOMAIN g} \ {-1}) = Len(t)
\* Line 1737.
LastNameIsMax(g, t) == Len(t) - 1 = SetMax({g[c] : c \in DOMAIN g})

\* Lines 1730-1737: the surviving farmers are renumbered from 0, in the grid
\* and in the table, and the two assertions are evaluated.  With no farmer
\* left line 1730 fails on the maximum of an empty index.
Renumber ==
    /\ dpc = "renumber"
    /\ IF farmers = <<>>
       THEN /\ UNCHANGED <<subgrid_farms_in_study_area, farmers>>
            /\ dpc' = "raised"
            /\ error' = "empty1730"
       ELSE LET remap == RemapFarmerIds(farmers)
                g == [c \in DOMAIN subgrid_farms_in_study_area |->
                        RemapLookup(remap, subgrid_farms_in_study_area[c])]
                t == [k \in 1..Len(farmers) |-> [farmers[k] EXCEPT !.id = k - 1]]
            IN  /\ subgrid_farms_in_study_area' = g
                /\ farmers' = t
                /\ IF ~DistinctMatchesFarmers(g, t)
                   THEN dpc' = "raised" /\ error' = "assert1736"
                   ELSE IF ~LastNameIsMax(g, t)
                        THEN dpc' = "raised" /\ error' = "assert1737"
                        ELSE dpc' = "done" /\ error' = error
    /\ UNCHANGED <<calendarVars, rerunVars, inputVars, orderVars, pc, farms, cursorVars, outerVars,
                   boxVars, scanVars, driverInputVars, region_k, bounds, driver_farms,
                   region_mask>>

\* The farmers of region r ask for as many cells as the region has
\* cultivated land: the table that setup_farmers is handed is built so
\* (line 2041).
RegionBalanced(raster, land, t, r) ==
    SumSizes([k \in 1..Len(t) |-> IF t[k].region_id = r THEN t[k].area_n_cells ELSE 0])
        = Cardinality({c \in DOMAIN raster : raster[c] = r /\ land[c]})

\* The state at the call of setup_farmers (lines 1696-1699): a raster of
\* regions, the cultivated land, and a farmer table whose index is 0..n-1
\* (line 2047) and whose sizes are positive and balanced region by region.
InitDriver ==
    /\ mode = "driver"
    /\ CalendarIdle
    /\ dpc = "loop"
    /\ \E s \in DriverShapes :
        /\ gysize = s[1]
        /\ gxsize = s[2]
        /\ regions_raster \in [Cells(s[1], s[2]) -> RegionIds]
        /\ full_land \in [Cells(s[1], s[2]) -> BOOLEAN]
        /\ driver_farms = [c \in Cells(s[1], s[2]) |-> -1]
    /\ regions = RegionOrder(regions_raster)
    /\ \E n \in 0..MaxAgents :
        \E col \in [1..n -> [region_id : RegionIds, area_n_cells : 1..MaxDriverCells]] :
            farmers = [k \in 1..n |->
                         [id |-> k - 1, region_id |-> col[k].region_id,
                          area_n_cells |-> col[k].area_n_cells]]
    /\ \A k \in 1..Len(farmers) : \E j \in 1..Len(regions) : farmers[k].region_id = regions[j]
    /\ \A j \in 1..Len(regions) : RegionBalanced(regions_raster, full_land, farmers, regions[j])
    /\ region_k = 1
    /\ bounds = <<>>
    /\ region_mask = <<>>
    /\ subgrid_farms_in_study_area = <<>>
    /\ cultivated_land = <<>> /\ ysize = 0 /\ xsize = 0 /\ agents = <<>>
    /\ ids = <<>> /\ farm_sizes = <<>>
    /\ pc = "idle"
    /\ farms = <<>>
    /\ current_farm_counter = 0 /\ cur_farm_size = 0 /\ farm_done = FALSE
    /\ farm_id = 0 /\ farm_size = 0
    /\ y = 0 /\ x = 0
    /\ xlow = 0 /\ xhigh = 0 /\ ylow = 0 /\ yhigh = 0
    /\ xsearch = 0 /\ ysearch = 0
    /\ yf = 0 /\ xf = 0
    /\ error = "none"
    /\ run = 1 /\ flips = <<>> /\ flip_pos = 0 /\ first_grid = <<>>

NextDriver ==
    \/ RegionCall
    \/ CheckSizesOk
    \/ Sample
    \/ KernelInit
    \/ OuterSkip
    \/ OuterSeed
    \/ OuterAssertFail
    \/ WhileBreak
    \/ WhileScan
    \/ BoxSkip
    \/ BoxAssign
    \/ BoxAssignDone
    \/ Expand
    \/ AfterDone
    \/ AfterNotDone
    \/ KernelFinish
    \/ Return
    \/ PostFail
    \/ RegionMerge
    \/ Removal
    \/ Renumber

SpecDriver == InitDriver /\ [][NextDriver]_vars

\* ------------------------------------ crop calendar (crop_calendars.py)
\* Under SpecCalendar one behaviour is one call of
\* parse_MIRCA2000_crop_calendar, one step per line of the calendar file;
\* under SpecSeason it is one call of get_growing_season_length.
\*
\* float(...) at line 49 makes an area a binary floating-point number, and
\* line 109 subtracts two of them with rounding to nearest, ties to even.
\* The format is scaled down from the 53 bits of mantissa of a Python float
\* to MantissaBits bits; an area is written as the whole number of units of
\* the smallest area enumerated.

\* Largest number of lines of the calendar file that the loop takes.
MaxLines == 2
\* Unit codes, crop classes (one-based, as the file writes them) and
\* rotation counts that a line of the file is drawn from.
UnitCodes == {1, 2}
CropClasses == {1}
RotationCounts == 0..3
\* Bits of mantissa of the scaled-down floating-point format.
MantissaBits == 2
\* Areas: 0 and numbers the format holds exactly.  8 - 2 is held exactly,
\* 8 - 1 is not.
Areas == {0, 1, 2, 8}
\* The months a rotation starts in and ends in.
StartMonths == {1, 12}
EndMonths == {1}
\* The fields <<area, start_month, end_month>> of one rotation.  The months
\* of a rotation of area 0 are never read (line 51): one choice stands for
\* all.
RotationFields ==
    {c \in Areas \X StartMonths \X EndMonths : c[1] = 0 => c[2] = 1}
\* The unit grids that are enumerated, as their sets of unit codes.
UnitGrids == {{1}}
\* The day numbers of the year 2000.
Days == 1..366

\* calendar.monthrange(2000, m)[1]: the length of month m of the leap year.
MonthLength(m) ==
    IF m = 2 THEN 29 ELSE IF m \in {4, 6, 9, 11} THEN 30 ELSE 31

RECURSIVE DaysBefore(_)
DaysBefore(m) == IF m = 1 THEN 0 ELSE DaysBefore(m - 1) + MonthLength(m - 1)

\* get_day_of_year(date(2000, m, d))
GetDayOfYear(m, d) == DaysBefore(m) + d

GetGrowingSeasonLengthNoZeroTest(start, end) == (end - start) % 365

GetGrowingSeasonLength(start, end) ==
    LET length == (end - start) % 365
    IN  IF length = 0 THEN 365 ELSE length

\* The spacing of the floating-point numbers around v >= 0.
RECURSIVE Quantum(_)
Quantum(v) == IF v < 2 ^ MantissaBits THEN 1 ELSE 2 * Quantum(v \div 2)

\* The floating-point number nearest to v >= 0, ties to the even mantissa.
RoundToFloat(v) ==
    LET q == Quantum(v)
        lower == (v \div q) * q
        rest == v - lower
    IN  IF 2 * rest < q THEN lower
        ELSE IF 2 * rest > q THEN lower + q
        ELSE IF (lower \div q) % 2 = 0 THEN lower ELSE lower + q

\* Line 109: the floating-point difference a - b.
FloatSub(a, b) == IF a >= b THEN RoundToFloat(a - b) ELSE 0 - RoundToFloat(b - a)

\* Lines 52-59: the tuple of one rotation <<area, start_month, end_month>>.
RotationOf(c) ==
    LET sd == GetDayOfYear(c[2], 1)
        ed == GetDayOfYear(c[3], MonthLength(c[3]))
    IN  <<sd, GetGrowingSeasonLength(sd, ed), c[1]>>

\* Lines 48-59: the rotations of the line, those of area 0 passed over.
ReadRotations(n, crops) ==
    SelectSeq([r \in 1..n |-> RotationOf(crops[r])], LAMBDA t : t[3] # 0)

\* Lines 68-72.
DiscardZeroArea(rots) == SelectSeq(rots, LAMBDA t : t[3] > 0)

\* sorted(..., key=area) is stable: a tuple goes behind those of equal area.
RECURSIVE InsertByArea(_, _)
InsertByArea(sorted, t) ==
    IF sorted = <<>> THEN <<t>>
    ELSE IF sorted[Len(sorted)][3] <= t[3] THEN Append(sorted, t)
    ELSE Append(InsertByArea(SubSeq(sorted, 1, Len(sorted) - 1), t),
                sorted[Len(sorted)])

RECURSIVE SortedPrefix(_, _)
SortedPrefix(rots, n) ==
    IF n = 0 THEN <<>> ELSE InsertByArea(SortedPrefix(rots, n - 1), rots[n])

SortByAreaKeepsOrder(rots) == rots

\* Line 74.
SortByArea(rots) == SortedPrefix(rots, Len(rots))

\* The row of "no crop".
NoCrop == <<-1, -1, -1>>

\* Lines 77-86 and 95-104: the entry of one rotation grown alone.
SingleCrop(cls, t) == <<t[3], <<<<cls, t[1], t[2]>>, NoCrop, NoCrop>>>>

\* Lines 108-121: the larger rotation grown alone on the area that the
\* smaller one leaves.
MultiCropSingle(cls, rots) ==
    <<FloatSub(rots[2][3], rots[1][3]),
      <<<<cls, rots[2][1], rots[2][2]>>, NoCrop, NoCrop>>>>

\* Lines 123-140: both rotations on the area of the smaller one.
MultiCropDouble(cls, rots) ==
    <<rots[1][3],
      <<<<cls, rots[1][1], rots[1][2]>>, <<cls, rots[2][1], rots[2][2]>>, NoCrop>>>>

\* Lines 75-141 for a line of one or two rotations: the entries appended to
\* the unit's list, in order.  In the branch of two rotations line 141 is
\* at the indentation of the inner if/else: it appends the entry that
\* crop_rotation holds after either branch, which after the loop of lines
\* 93-105 is the entry the loop built last.
LineEntries(cls, rots) ==
    IF Len(rots) = 1 THEN <<SingleCrop(cls, rots[1])>>
    ELSE IF rots[1][1] = rots[2][1]
         THEN <<SingleCrop(cls, rots[1]), SingleCrop(cls, rots[2]),
                SingleCrop(cls, rots[2])>>
         ELSE <<MultiCropSingle(cls, rots), MultiCropDouble(cls, rots)>>

\* create_farms and setup_farmers are not running.
FarmsIdle ==
    /\ DriverIdle
    /\ cultivated_land = <<>> /\ ysize = 0 /\ xsize = 0 /\ agents = <<>>
    /\ ids = <<>> /\ farm_sizes = <<>>
    /\ pc = "idle"
    /\ farms = <<>>
    /\ current_farm_counter = 0 /\ cur_farm_size = 0 /\ farm_done = FALSE
    /\ farm_id = 0 /\ farm_size = 0
    /\ y = 0 /\ x = 0
    /\ xlow = 0 /\ xhigh = 0 /\ ylow = 0 /\ yhigh = 0
    /\ xsearch = 0 /\ ysearch = 0
    /\ yf = 0 /\ xf = 0
    /\ error = "none"
    /\ mode = "calendar"
    /\ run = 1 /\ flips = <<>> /\ flip_pos = 0 /\ first_grid = <<>>

farmsVars == <<inputVars, orderVars, pc, farms, cursorVars, outerVars, boxVars, scanVars,
               error, rerunVars, driverVars>>

\* An exception leaves parse_MIRCA2000_crop_calendar: its locals and the
\* dictionary it was building are gone with its frame.
Raise(exception) ==
    /\ cpc' = "raised"
    /\ cal_error' = exception
    /\ line_no' = 0
    /\ MIRCA2000_data' = <<>>
    /\ unit_code' = 0 /\ crop_class' = 0 /\ number_of_rotations' = 0
    /\ crop_rotations' = <<>>
    /\ crop_rotation' = <<>>

\* Lines 35-143: the body of the loop for one line of the file, whose
\* fields are the unit code, the crop class, the number of rotations and
\* one <<area, start_month, end_month>> per rotation.
ParseLine ==
    /\ cpc = "lines"
    /\ line_no < MaxLines
    /\ \/ \E unit \in UnitCodes \ unique_MIRCA2000_units :
            \* line 39
            /\ unit_code' = unit
            /\ line_no' = line_no + 1
            /\ UNCHANGED <<cpc, cal_error, MIRCA2000_data, crop_class,
                           number_of_rotations, crop_rotations, crop_rotation>>
       \/ \E unit \in UnitCodes \cap unique_MIRCA2000_units, cls \in CropClasses,
             n \in RotationCounts :
            \E crops \in [1..n -> RotationFields] :
                LET listed == IF unit \in DOMAIN MIRCA2000_data
                              THEN MIRCA2000_data
                              ELSE MIRCA2000_data @@ (unit :> <<>>)
                    read == ReadRotations(n, crops)
                    rots == SortByArea(DiscardZeroArea(read))
                    entries == LineEntries(cls - 1, rots)
                IN  IF n = 0
                    THEN \* line 45
                         /\ unit_code' = unit
                         /\ crop_class' = cls - 1
                         /\ number_of_rotations' = n
                         /\ MIRCA2000_data' = listed
                         /\ line_no' = line_no + 1
                         /\ UNCHANGED <<cpc, cal_error, crop_rotations, crop_rotation>>
                    ELSE IF read = <<>>
                    THEN \* line 61: start_month was never bound
                         Raise("UnboundLocalError")
                    ELSE IF Len(rots) > 2
                    THEN \* line 143
                         Raise("NotImplementedError")
                    ELSE /\ unit_code' = unit
                         /\ crop_class' = cls - 1
                         /\ number_of_rotations' = n
                         /\ crop_rotations' = rots
                         /\ crop_rotation' = entries[Len(entries)]
                         /\ MIRCA2000_data' = [listed EXCEPT ![unit] = @ \o entries]
                         /\ line_no' = line_no + 1
                         /\ UNCHANGED <<cpc, cal_error>>
    /\ UNCHANGED <<farmsVars, unique_MIRCA2000_units, seasonVars>>

\* Line 145: the file has no further line.
ParseReturn ==
    /\ cpc = "lines"
    /\ cpc' = "returned"
    /\ UNCHANGED <<farmsVars, unique_MIRCA2000_units, line_no, MIRCA2000_data, lineVars,
                   seasonVars, cal_error>>

\* Lines 19-34: the unit grid is read, the dictionary is empty.
InitCalendar ==
    /\ FarmsIdle
    /\ cpc = "lines"
    /\ unique_MIRCA2000_units \in UnitGrids
    /\ line_no = 0
    /\ MIRCA2000_data = <<>>
    /\ unit_code = 0 /\ crop_class = 0 /\ number_of_rotations = 0
    /\ crop_rotations = <<>>
    /\ crop_rotation = <<>>
    /\ start_day = 0 /\ end_day = 0 /\ growth_length = 0
    /\ cal_error = "none"

NextCalendar == ParseLine \/ ParseReturn

SpecCalendar == InitCalendar /\ [][NextCalendar]_vars

\* Line 58, for any two day numbers of the year.
SeasonLength ==
    /\ cpc = "season"
    /\ growth_length' = GetGrowingSeasonLength(start_day, end_day)
    /\ cpc' = "season_done"
    /\ UNCHANGED <<farmsVars, unique_MIRCA2000_units, line_no, MIRCA2000_data, lineVars,
                   start_day, end_day, cal_error>>

InitSeason ==
    /\ FarmsIdle
    /\ cpc = "season"
    /\ unique_MIRCA2000_units = {}
    /\ line_no = 0
    /\ MIRCA2000_data = <<>>
    /\ unit_code = 0 /\ crop_class = 0 /\ number_of_rotations = 0
    /\ crop_rotations = <<>>
    /\ crop_rotation = <<>>
    /\ start_day \in Days
    /\ end_day \in Days
    /\ growth_length = 0
    /\ cal_error = "none"

NextSeason == SeasonLength

SpecSeason == InitSeason /\ [][NextSeason]_vars

\* ================================================================ claims
\* The preconditions of the allocator's contract: every target size is
\* positive, the sizes sum to the number of cultivable cells, and the ids,
\* the index of the agent table, name one agent each.
PositiveSizes == \A k \in 1..Len(agents) : agents[k].size > 0
SizesSumToCultivable ==
    SumSizes([k \in 1..Len(agents) |-> agents[k].size])
        = Cardinality({c \in DOMAIN cultivated_land : cultivated_land[c]})
DistinctIds == \A i, j \in 1..Len(agents) : agents[i].id = agents[j].id => i = j
ValidInput == PositiveSizes /\ SizesSumToCultivable /\ DistinctIds

\* The kernel has returned its grid to create_farms (line 102).
KernelReturned == pc = "post"
\* create_farms has returned its grid (line 111).
Returned == pc = "returned"
Raised == pc = "raised"
Done == Returned \/ Raised

\* The box scan is at a position whose address lies outside the grid's buffer.
OutOfBufferAccess == pc = "box" /\ Indexed /\ ~InBuffer(yf, xf)

\* C1: exact size match.  For every valid input and every sequence of coin
\* flips, the grid returned by create_farms_numba labels exactly sizes[i]
\* cells with ids[i], for every agent i.
C1_ExactSizeMatch ==
    (KernelReturned /\ ValidInput) =>
        \A k \in 1..Len(ids) : CountEq(farms, ids[k]) = farm_sizes[k]


\* The ids of the caller's agent table.
InputIds == {agents[k].id : k \in 1..Len(agents)}

\* C2: partition completeness.  For every valid input the grid create_farms
\* returns has the shape of the mask, every cultivable cell holds a
\* non-negative id taken from the input ids, and every non-cultivable cell
\* holds the no-farm value -1: (output >= 0) equals the mask cell by cell.
C2_PartitionComplete ==
    (Returned /\ ValidInput) =>
        /\ DOMAIN farms = DOMAIN cultivated_land
        /\ \A c \in DOMAIN cultivated_land :
            /\ cultivated_land[c] => (farms[c] >= 0 /\ farms[c] \in InputIds)
            /\ ~cultivated_land[c] => farms[c] = -1
            /\ (farms[c] >= 0) <=> cultivated_land[c]

C2_Witness ==
    /\ Returned /\ ValidInput /\ Len(agents) = 2
    /\ \E c, d \in DOMAIN cultivated_land : cultivated_land[c] /\ ~cultivated_land[d]

\* C3: dense id range.  For every valid input the set of distinct values
\* other than -1 in the grid create_farms returns is exactly the set of
\* input agent ids.
C3_DenseIdRange ==
    (Returned /\ ValidInput) => {farms[c] : c \in DOMAIN farms} \ {-1} = InputIds

C3_Witness == Returned /\ ValidInput /\ Cardinality(InputIds) = 2

\* C4: precondition rejection.  When the size sum differs from the number
\* of cultivable cells, create_farms fails at line 95, before the grid is
\* created: no grid exists in any state of such a call, and the call's
\* only step is the failure of the assertion.
C4_PreconditionRejection ==
    ~SizesSumToCultivable =>
        /\ farms = <<>>
        /\ pc = "check" \/ (pc = "raised" /\ error = "assert95")

C4_Witness ==
    /\ Raised /\ farms = <<>>
    /\ SumSizes([k \in 1..Len(agents) |-> agents[k].size])
         < Cardinality({c \in DOMAIN cultivated_land : cultivated_land[c]})
    /\ PositiveSizes /\ Len(agents) > 0

\* The Parcel Label Grid invariants: each agent's id labels exactly its
\* target number of cells, and the labelled cells are the cultivable ones.
LabelGridInvariants ==
    /\ \A k \in 1..Len(agents) : CountEq(farms, agents[k].id) = agents[k].size
    /\ \A c \in DOMAIN cultivated_land : (farms[c] >= 0) <=> cultivated_land[c]

\* C5: for every input that meets the preconditions, whatever the values
\* of the ids, create_farms raises no error and returns a grid that
\* satisfies the Parcel Label Grid invariants.
C5_ValidInputReturns ==
    (Done /\ ValidInput) => (Returned /\ LabelGridInvariants)

\* C6: an agent list with a non-positive size whose sizes sum to the
\* cultivable count is rejected with an error before any cell of the grid
\* is assigned to an agent.
C6_NonPositiveRejectedFirst ==
    (SizesSumToCultivable /\ ~PositiveSizes) =>
        /\ Done => Raised
        /\ farms # <<>> => \A c \in DOMAIN farms : farms[c] < 0

\* C7: for every input whatsoever, create_farms either raises or returns a
\* grid in which every input id labels exactly its target number of cells
\* and the labelled cells are exactly the cultivable cells.
C7_NoPartialGrid == Returned => LabelGridInvariants

\* C8: termination.  Every call on valid input completes, whatever the
\* coin flips are.
C8_Termination == ValidInput ~> Done

\* A call on valid input has returned after a box expansion moved off the grid
\* on the low side.
C8_Witness == Returned /\ ValidInput /\ Len(agents) = 2 /\ (ylow < 0 \/ xlow < 0)

\* C9: determinism.  Two runs of the kernel on the same mask, the same
\* ordered ids and sizes and the same coin flips return the same grid.
C9_Determinism ==
    (mode = "twice" /\ run = 2 /\ KernelReturned) => farms = first_grid

\* C10: in the grid returned by create_farms_numba and by create_farms,
\* every non-cultivable cell holds -1, no cell holds a value below -1, and
\* no cultivable cell holds -1.
C10_NoDataIsMinusOne ==
    (KernelReturned \/ Returned) =>
        \A c \in DOMAIN cultivated_land :
            /\ farms[c] >= -1
            /\ (farms[c] = -1) <=> ~cultivated_land[c]

\* ---------------------------------------------------------- region driver
\* The region loop of setup_farmers is over (line 1715 is reached).
LoopOver == dpc = "loop" /\ region_k > Len(regions)
\* A call of create_farms made by the region loop has raised.
CallRaised == dpc = "call" /\ pc = "raised"
\* The cells of the merged grid that hold id i.
ParcelCells(i) == {c \in DOMAIN driver_farms : driver_farms[c] = i}

\* C11: for any number of regions whose farmers carry the ids of the global
\* farmer table, the region loop completes, and afterwards every farmer's id
\* labels exactly area_n_cells cells of the merged grid, all of them
\* cultivable cells of that farmer's own region.
C11_RegionLoopAllocates ==
    /\ ~CallRaised
    /\ error # "assert1711"
    /\ LoopOver =>
        \A k \in 1..Len(farmers) :
            /\ Cardinality(ParcelCells(farmers[k].id)) = farmers[k].area_n_cells
            /\ \A c \in ParcelCells(farmers[k].id) :
                full_land[c] /\ regions_raster[c] = farmers[k].region_id

\* The removal of lines 1717-1728 has been made, and the ids are not yet
\* renumbered.
Removed == dpc = "renumber"
\* The ids of the parcels of the merged grid.
ParcelIds == {driver_farms[c] : c \in DOMAIN driver_farms} \ {-1}
\* The cells of parcel i outside the study area.
OutsideCells(i) == {c \in ParcelCells(i) : region_mask[c]}
\* Parcel i is gone from the farmer table and from the grid of the study area.
Discarded(i) ==
    /\ \A k \in 1..Len(farmers) : farmers[k].id # i
    /\ \A c \in DOMAIN subgrid_farms_in_study_area : subgrid_farms_in_study_area[c] # i
\* Parcel i is in the farmer table still.
Kept(i) == \E k \in 1..Len(farmers) : farmers[k].id = i

\* C12 as stated: a parcel is discarded exactly when the majority of its
\* cells fall outside the study-area mask; a parcel with a minority of its
\* cells outside is kept.
C12_MajorityRemoval ==
    Removed =>
        \A i \in ParcelIds :
            /\ Discarded(i) <=> 2 * Cardinality(OutsideCells(i)) > Cardinality(ParcelCells(i))
            /\ 2 * Cardinality(OutsideCells(i)) <= Cardinality(ParcelCells(i)) => Kept(i)

\* C12 as amended: a parcel is discarded, from the farmer table and from
\* the grid, exactly when at least one of its cells falls outside the
\* study-area mask; a parcel with all of its cells inside is kept.
C12_AnyCellRemoval ==
    Removed =>
        \A i \in ParcelIds :
            /\ Discarded(i) <=> OutsideCells(i) # {}
            /\ Kept(i) <=> OutsideCells(i) = {}

\* A parcel of three cells with one cell outside the study area has been
\* discarded while another parcel is kept.
C12_Witness ==
    /\ Removed
    /\ \E i, j \in ParcelIds :
        /\ Cardinality(ParcelCells(i)) = 3
        /\ Cardinality(OutsideCells(i)) = 1
        /\ Discarded(i)
        /\ Kept(j)

\* C13: after removal and renumbering with at least one surviving farmer,
\* the maximum id of the final grid is the number of surviving farmers minus
\* one, the number of distinct ids other than -1 in it is the number of
\* surviving farmers, and neither assertion of setup_farmers fails.
C13_DriverPostcondition ==
    /\ error \notin {"assert1736", "assert1737"}
    /\ dpc = "done" =>
        LET final == {subgrid_farms_in_study_area[c] : c \in DOMAIN subgrid_farms_in_study_area}
        IN  /\ Len(farmers) >= 1
            /\ \A v \in final : v <= Len(farmers) - 1
            /\ Len(farmers) - 1 \in final
            /\ Cardinality(final \ {-1}) = Len(farmers)
            /\ \A k \in 1..Len(farmers) : farmers[k].id = k - 1

\* setup_farmers is done after a farmer with a smaller id than a surviving
\* one was removed: the survivor's cells hold a new id.
C13_Witness ==
    /\ dpc = "done"
    /\ \E i, j \in ParcelIds :
        /\ i < j
        /\ OutsideCells(i) # {}
        /\ OutsideCells(j) = {}
        /\ \A c \in DOMAIN subgrid_farms_in_study_area : subgrid_farms_in_study_area[c] < j

\* ------------------------------------------------------- the kernel's steps
\* A growth region is open: the while loop of line 42 is running.
InRegion == pc \in {"while", "box", "expand"}
\* The while loop of line 42 has just been left.
RegionLeft == pc = "after"
\* The outer scan has just begun a growth region at the seed (x, y).
RegionBegun ==
    /\ pc = "while"
    /\ xlow = x /\ xhigh = x + 1 /\ ylow = y /\ yhigh = y + 1
    /\ farms[<<y, x>>] = UNASSIGNED

\* C14 as stated: a growth region is left only when the agent's target is
\* reached, so that a new growth region always begins with the placed-counter
\* at 0, for the next agent: each parcel is grown from exactly one seed.
C14_OneSeedPerAgent ==
    /\ RegionLeft => farm_done
    /\ RegionBegun => cur_farm_size = 0

\* C14 as amended: a growth region is left when the agent's target is
\* reached or when the window of line 43 holds no unassigned cell.  In the
\* first case the placed-counter is 0 and the cursor moves on by one; in the
\* second the counter (at least 1) and the cursor are kept, and the same
\* agent goes on at the next seed: a parcel may be grown from several seeds.
C14_SeedsPerAgent ==
    /\ [](RegionLeft =>
            IF farm_done
            THEN cur_farm_size = 0
            ELSE /\ cur_farm_size >= 1
                 /\ \A c \in Window : farms[c] # UNASSIGNED)
    /\ [][RegionLeft =>
            IF farm_done
            THEN current_farm_counter' = current_farm_counter + 1
            ELSE /\ current_farm_counter' = current_farm_counter
                 /\ cur_farm_size' = cur_farm_size
                 /\ farm_id' = farm_id /\ farm_size' = farm_size]_vars

\* On valid input a growth region has begun for the first agent, which holds
\* cells of an earlier seed.
C14_Witness ==
    /\ RegionBegun
    /\ ValidInput
    /\ cur_farm_size >= 1
    /\ current_farm_counter = 0
    /\ CountEq(farms, farm_id) = cur_farm_size

\* C15: during a box scan a cell is assigned only if its row and column lie
\* inside the current box and inside the grid; a box position outside the
\* grid, a negative row or column included, is skipped and never mapped onto
\* another grid cell.
C15_NoWrapAround ==
    [][pc = "box" =>
        \A c \in DOMAIN farms :
            farms'[c] # farms[c] =>
                /\ c = <<yf, xf>>
                /\ ylow <= c[1] /\ c[1] <= yhigh
                /\ xlow <= c[2] /\ c[2] <= xhigh]_vars

\* C16: when the outer scan completes on valid input the cursor has advanced
\* exactly N times and no cell holds the unassigned marker, so that the
\* assertion of line 90 never fails.
C16_CursorAtEnd ==
    ValidInput =>
        /\ error # "assert90"
        /\ pc = "finish" =>
            /\ current_farm_counter = Len(ids)
            /\ CountEq(farms, UNASSIGNED) = 0

\* C17: every read of ids[cursor] and farm_sizes[cursor] is made with
\* 0 <= cursor < N: the read of lines 27-28 and the read of lines 87-88,
\* the one after the last agent reached its target included.
C17_CursorInRange ==
    /\ pc = "kernel" => 0 < Len(ids)
    /\ (pc = "after" /\ farm_done) => current_farm_counter + 1 < Len(ids)

\* C18: for every valid input and every sequence of coin flips, the box scan
\* never evaluates farms[yf, xf] with a row below -ysize or a column below
\* -xsize; every access stays inside the array.
C18_IndexInsideArray ==
    (ValidInput /\ pc = "box" /\ Indexed) =>
        /\ yf >= -ysize
        /\ xf >= -xsize
        /\ InBuffer(yf, xf)

\* The box is the one line 38 sets up around the seed (x, y): no expansion
\* has been made (an expansion moves one row bound and one column bound).
FirstBox == xlow = x /\ xhigh = x + 1 /\ ylow = y /\ yhigh = y + 1
\* The grid cells of the rows y, y+1 and the columns x, x+1.
SeedBlock == {c \in Cells(ysize, xsize) : c[1] \in {y, y + 1} /\ c[2] \in {x, x + 1}}

\* C19 as stated: the box of a new growth region starts as the single seed
\* cell; the first box scan examines and can assign only the cell (x, y).
C19_SingleCellBox ==
    [][(pc = "box" /\ FirstBox) =>
         \A c \in DOMAIN farms : farms'[c] # farms[c] => c = <<y, x>>]_vars

\* C19 as amended: the box of a new growth region starts as the rows y, y+1
\* and the columns x, x+1.  The first box scan examines these four positions,
\* the seed first and (x+1, y+1) last unless the target is reached before,
\* and can assign only those of them that lie in the grid.
C19_TwoByTwoBox ==
    /\ [][(pc = "scan" /\ pc' = "while") => FirstBox']_vars
    /\ [][(pc = "while" /\ pc' = "box" /\ FirstBox) => (yf' = y /\ xf' = x)]_vars
    /\ [][(pc = "box" /\ FirstBox) =>
            \A c \in DOMAIN farms : farms'[c] # farms[c] => c \in SeedBlock]_vars
    /\ [][(pc = "box" /\ pc' = "box" /\ FirstBox) =>
            \/ yf' = yf /\ xf = x /\ xf' = x + 1
            \/ yf = y /\ yf' = y + 1 /\ xf = x + 1 /\ xf' = x]_vars
    /\ [][(pc = "box" /\ pc' = "expand" /\ FirstBox) => (yf = y + 1 /\ xf = x + 1)]_vars

\* The first box scan of the first seed has assigned three cells.
C19_Witness ==
    /\ pc \in {"box", "expand", "after"}
    /\ FirstBox
    /\ current_farm_counter = 0
    /\ Cardinality({c \in DOMAIN farms : farms[c] # UNASSIGNED /\ farms[c] # NOT_CULTIVABLE}) = 3
    /\ Cardinality({c \in SeedBlock : farms[c] = farm_id}) = 3

\* The grid positions of the current box.
BoxCells == {c \in Cells(ysize, xsize) :
               ylow <= c[1] /\ c[1] <= yhigh /\ xlow <= c[2] /\ c[2] <= xhigh}

\* C20: mid-scan early exit.  The cell that brings the placed-counter to
\* the target is the last cell assigned in that box scan: the scan and the
\* growth region end with it and the counter is reset to 0 at that moment.
\* The counter never exceeds the target (it stays below it while a region
\* is open), and the unassigned cells left in the box stay unassigned until
\* a box scan of a later growth region, begun by the outer scan, meets them.
C20_EarlyExit ==
    /\ [](InRegion => (0 <= cur_farm_size /\ cur_farm_size < farm_size))
    /\ [][(pc = "box" /\ Indexed /\ cur_farm_size + 1 = farm_size
             /\ (farms' # farms \/ cur_farm_size' # cur_farm_size \/ farm_done' # farm_done))
          => (pc' = "after" /\ farm_done' /\ cur_farm_size' = 0)]_vars
    /\ [][(pc = "box" /\ cur_farm_size + 1 # farm_size)
          => (~farm_done' /\ cur_farm_size' \in {cur_farm_size, cur_farm_size + 1})]_vars
    /\ [][(pc = "after" /\ farm_done)
          => (farms' = farms /\ pc' \in {"scan", "finish"} /\ cur_farm_size' = 0)]_vars
    /\ [][(pc \in {"scan", "while", "expand", "after"}) => farms' = farms]_vars

\* A farm has been completed in the middle of a box scan: unassigned cells
\* are left in the box, at positions the scan had not reached.
C20_Witness ==
    /\ pc = "after"
    /\ farm_done
    /\ cur_farm_size = 0
    /\ \E c \in BoxCells :
        /\ farms[c] = UNASSIGNED
        /\ (c[1] > yf \/ (c[1] = yf /\ c[2] > xf))

\* The kernel is between its first and its last statement on the grid.
Scanning == pc \in {"scan", "while", "box", "expand", "after", "finish"}
\* The number of agents that are complete: the cursor, and one more between
\* the completion of a farm (line 61) and the move of the cursor (line 86).
Completed == IF pc = "after" /\ farm_done
             THEN current_farm_counter + 1
             ELSE current_farm_counter

\* C21: agents receive cells strictly in cursor order.  With distinct ids,
\* in every state of the scan each agent before the cursor labels exactly
\* its target number of cells, the agent at the cursor labels exactly
\* placed-counter cells, and no agent after the cursor labels any cell.
C21_CursorOrder ==
    (Scanning /\ DistinctIds) =>
        \A k \in 1..Len(ids) :
            CountEq(farms, ids[k]) =
                IF k - 1 < Completed THEN farm_sizes[k]
                ELSE IF k - 1 = Completed THEN cur_farm_size
                ELSE 0

\* C22: each box expansion moves exactly one row bound outward by one and
\* exactly one column bound outward by one: the height and the width of the
\* box each grow by exactly 1, and no bound moves inward, or at all, between
\* two expansions of a growth region.
C22_ExpansionByOne ==
    /\ [][pc = "expand" =>
            /\ \/ ylow' = ylow - 1 /\ yhigh' = yhigh
               \/ ylow' = ylow /\ yhigh' = yhigh + 1
            /\ \/ xlow' = xlow - 1 /\ xhigh' = xhigh
               \/ xlow' = xlow /\ xhigh' = xhigh + 1
            /\ (yhigh' - ylow') = (yhigh - ylow) + 1
            /\ (xhigh' - xlow') = (xhigh - xlow) + 1]_vars
    /\ [][(pc \in {"while", "box"}) =>
            (ylow' = ylow /\ yhigh' = yhigh /\ xlow' = xlow /\ xhigh' = xhigh)]_vars

\* A growth region has been expanded once, to the low side of the rows and
\* to the high side of the columns.
C22_Witness ==
    /\ InRegion
    /\ ylow = y - 1 /\ yhigh = y + 1
    /\ xlow = x /\ xhigh = x + 2
    /\ ysearch = 1 /\ xsearch = 0

\* C23: create_farms leaves its inputs unchanged: the mask and the caller's
\* agent table (index, sizes, row order) are the same after the call as
\* before it, whether the call returns or raises.
C23_InputsUnchanged ==
    [][/\ cultivated_land' = cultivated_land
       /\ ysize' = ysize /\ xsize' = xsize
       /\ agents' = agents]_vars

\* A call has returned a grid that differs from the mask, on a table that
\* the shuffle of line 97 handed to the kernel in another order.
C23_Witness ==
    /\ Returned
    /\ Len(agents) = 2
    /\ ids # [k \in 1..Len(agents) |-> agents[k].id]
    /\ \E c \in DOMAIN farms : farms[c] >= 0

\* C24: write-once cells.  During the scan the only change of a cell is from
\* unassigned to the id of the agent at the cursor: a cell that holds an id
\* never changes again and a non-cultivable cell is never assigned.
C24_WriteOnce ==
    [][(Scanning /\ Scanning') =>
        \A c \in DOMAIN farms :
            farms'[c] # farms[c] =>
                /\ farms[c] = UNASSIGNED
                /\ cultivated_land[c]
                /\ current_farm_counter < Len(ids)
                /\ farms'[c] = ids[current_farm_counter + 1]]_vars

\* C25: empty input.  For a mask with no cultivable cell and an empty agent
\* table create_farms raises no error and returns a grid of -1.
C25_EmptyInput ==
    (agents = <<>> /\ \A c \in DOMAIN cultivated_land : ~cultivated_land[c]) =>
        /\ ~Raised
        /\ Returned => (DOMAIN farms = DOMAIN cultivated_land
                        /\ \A c \in DOMAIN farms : farms[c] = -1)

\* The call on an empty table and a mask of four non-cultivable cells has
\* returned; the read of ids[0] had yielded a value that is no cell's label.
C25_Witness ==
    /\ Returned
    /\ agents = <<>>
    /\ Cardinality(DOMAIN cultivated_land) = 4
    /\ farm_id = 2

\* The parcels of the merged grid that have no cell outside the study area.
Survivors == {i \in ParcelIds : OutsideCells(i) = {}}
\* The clip of the study area (line 1725).
StudyBounds == ClipBounds({c \in DOMAIN region_mask : ~region_mask[c]})

C27_MergeFrame ==
    [][(dpc = "call" /\ dpc' = "loop") =>
        \A c \in DOMAIN driver_farms :
            driver_farms'[c] # driver_farms[c] => regions_raster[c] = regions[region_k]]_vars

\* The second region has been merged; its clip holds a labelled cell of the
\* first region.
C27_Witness ==
    /\ dpc = "loop"
    /\ region_k = 3
    /\ \E c \in DOMAIN driver_farms :
        /\ regions_raster[c] = regions[1]
        /\ driver_farms[c] >= 0
        /\ LET b == ClipBounds(RegionCells(regions[2]))
           IN  b.y0 <= c[1] /\ c[1] < b.y1 /\ b.x0 <= c[2] /\ c[2] < b.x1

\* ------------------------------------------------------ crop calendar
\* The step took a line of the file to the branches of lines 75-143: its
\* unit is in the grid and it lists at least one rotation.
LineTaken ==
    /\ cpc = "lines" /\ cpc' = "lines"
    /\ line_no' = line_no + 1
    /\ unit_code' \in unique_MIRCA2000_units
    /\ number_of_rotations' # 0

\* The entries that the step appended to the list of the line's unit.
Appended ==
    LET before == IF unit_code' \in DOMAIN MIRCA2000_data
                  THEN Len(MIRCA2000_data[unit_code']) ELSE 0
    IN  SubSeq(MIRCA2000_data'[unit_code'], before + 1, Len(MIRCA2000_data'[unit_code']))

\* The entry of rotation t = <<start_day, growth_length, area>> grown alone.
Alone(cls, t) == <<t[3], <<<<cls, t[1], t[2]>>, <<-1, -1, -1>>, <<-1, -1, -1>>>>>>

\* The last line taken had two rotations of non-zero area.
TwoRotations ==
    /\ cpc = "lines"
    /\ unit_code \in unique_MIRCA2000_units
    /\ number_of_rotations # 0
    /\ Len(crop_rotations) = 2

\* C28: a line with exactly two rotations of non-zero area that start on
\* the same day appends exactly two entries, one per rotation, each with the
\* rotation's own area and its (crop_class, start_day, growth_length) row
\* followed by two (-1, -1, -1) rows.
C28_SameStartSplit ==
    [][(LineTaken /\ Len(crop_rotations') = 2
          /\ crop_rotations'[1][1] = crop_rotations'[2][1]) =>
        \/ Appended = <<Alone(crop_class', crop_rotations'[1]),
                        Alone(crop_class', crop_rotations'[2])>>
        \/ Appended = <<Alone(crop_class', crop_rotations'[2]),
                        Alone(crop_class', crop_rotations'[1])>>]_vars

\* The rows of the entry of two rotations grown one after the other.
Both(cls, t, u) == <<<<cls, t[1], t[2]>>, <<cls, u[1], u[2]>>, <<-1, -1, -1>>>>

\* The step took a line of two rotations of non-zero area that start on
\* different days.
MultiCropLine ==
    /\ LineTaken
    /\ Len(crop_rotations') = 2
    /\ crop_rotations'[1][1] # crop_rotations'[2][1]

\* C29 as stated: a line with exactly two rotations of non-zero area that
\* start on different days appends exactly two entries: the larger rotation
\* alone with area (larger - smaller), and both rotations with the smaller
\* area; both areas are non-negative and sum to the larger rotation's area.
C29_MultiCropExactSum ==
    [][MultiCropLine =>
        \E i, j \in 1..2 :
            LET small == crop_rotations'[i]
                large == crop_rotations'[j]
            IN  /\ i # j
                /\ small[3] <= large[3]
                /\ Len(Appended) = 2
                /\ Appended[1] = Alone(crop_class', <<large[1], large[2], large[3] - small[3]>>)
                /\ Appended[2][1] = small[3]
                /\ Appended[2][2] \in {Both(crop_class', small, large),
                                       Both(crop_class', large, small)}
                /\ Appended[1][1] >= 0 /\ Appended[2][1] >= 0
                /\ Appended[1][1] + Appended[2][1] = large[3]]_vars

\* C29, amended: the area of the single-crop entry is the floating-point
\* difference larger - smaller, the difference rounded to the nearest
\* number of the format.  Both areas are non-negative; they sum to the
\* larger rotation's area when the difference is a number of the format,
\* and are off by at most half the spacing of the format otherwise.
C29_MultiCropRounded ==
    [][MultiCropLine =>
        \E i, j \in 1..2 :
            LET small == crop_rotations'[i]
                large == crop_rotations'[j]
                exact == large[3] - small[3]
                total == Appended[1][1] + Appended[2][1]
            IN  /\ i # j
                /\ small[3] <= large[3]
                /\ Len(Appended) = 2
                /\ Appended[1] = Alone(crop_class', <<large[1], large[2], RoundToFloat(exact)>>)
                /\ Appended[2][1] = small[3]
                /\ Appended[2][2] \in {Both(crop_class', small, large),
                                       Both(crop_class', large, small)}
                /\ Appended[1][1] >= 0 /\ Appended[2][1] >= 0
                /\ RoundToFloat(exact) = exact => total = large[3]
                /\ 2 * (total - large[3]) <= Quantum(exact)
                /\ 2 * (large[3] - total) <= Quantum(exact)]_vars

\* The second line of the file had rotations of areas 1 and 8 that start on
\* different days; its two entries, of areas 8 - 1 rounded and 1, went
\* behind the entries of the first line.
C29_Witness ==
    /\ TwoRotations
    /\ line_no = 2
    /\ crop_rotations[1][1] # crop_rotations[2][1]
    /\ crop_rotations[1][3] = 1 /\ crop_rotations[2][3] = 8
    /\ LET list == MIRCA2000_data[unit_code]
       IN  /\ Len(list) >= 3
           /\ list[Len(list) - 1][1] = 8
           /\ list[Len(list)][1] = 1
           /\ list[Len(list)] = crop_rotation

\* C30: for day numbers in 1..366 get_growing_season_length returns a value
\* in 1..365 that differs from end_day - start_day by a multiple of 365:
\* (end_day - start_day) mod 365 when that is not zero, 365 when it is, so
\* equal days give 365 and never 0.
C30_SeasonLength ==
    cpc = "season_done" =>
        /\ growth_length \in 1..365
        /\ \E k \in -1..2 : growth_length = (end_day - start_day) + 365 * k
        /\ start_day = end_day => growth_length = 365

\* The call has returned 365 for a season that ends on the day it starts.
C30_Witness ==
    /\ cpc = "season_done"
    /\ growth_length = 365
    /\ end_day - start_day = 0

====
